---- MODULE Spec2Model ----
(***************************************************************************)
(* Model of the ABBYY Cloud OCR client: the AbbyyOcr class (two revisions  *)
(* of src/index.ts) on top of the callback based Ocrsdk transport          *)
(* (src/ocrsdk.js).  Strings that the code takes apart (file names, export *)
(* formats, task ids, paths) are sequences of one-character strings, so    *)
(* that split/join/slice/indexOf are computed and not assumed.             *)
(***************************************************************************)
EXTENDS Integers, Sequences, FiniteSets, TLC

(* ------------------------------ bounds --------------------------------- *)
\* process() calls made on the one client
MaxCalls == 2
\* getTaskStatus requests issued on behalf of one waitForCompletion call
MaxQueries == 3
\* events ('data' or 'error') that the responses of one process() call deliver
\* beyond the first event of each response
MaxExtraEvents == 1
\* downloadResult() generators created on the one client
MaxGens == 2
\* handlers registered with on()
MaxSubscribers == 2
\* callService requests made on the one client
MaxServiceCalls == 2

(* --------------------------- JavaScript values -------------------------- *)
\* the JavaScript value undefined, where a string is expected
Undefined == "undefined"

\* !v for a string-or-undefined v
Falsy(v) == v = Undefined \/ v = ""

(* ----------------------- strings as character tuples -------------------- *)
Rep(c, n) == [i \in 1..n |-> c]

Min(a, b) == IF a < b THEN a ELSE b

\* String.prototype.indexOf(pat): 0-based position of the first match, or -1
IndexOf(s, pat) ==
  LET hits == {i \in 1..(Len(s) - Len(pat) + 1) : SubSeq(s, i, i + Len(pat) - 1) = pat}
  IN  IF hits = {} THEN -1 ELSE (CHOOSE i \in hits : \A j \in hits : i <= j) - 1

\* String.prototype.split(sep) for a one-character separator
RECURSIVE Split(_, _)
Split(s, sep) ==
  LET k == IndexOf(s, <<sep>>)
  IN  IF k = -1 THEN <<s>>
      ELSE <<SubSeq(s, 1, k)>> \o Split(SubSeq(s, k + 2, Len(s)), sep)

\* Array.prototype.join(sep) for a one-character separator
RECURSIVE Join(_, _)
Join(parts, sep) ==
  IF Len(parts) = 0 THEN <<>>
  ELSE IF Len(parts) = 1 THEN parts[1]
  ELSE parts[1] \o <<sep>> \o Join(Tail(parts), sep)

\* s.slice(0, n) for n >= 0
SliceTo(s, n) == SubSeq(s, 1, Min(n, Len(s)))

\* a.slice(0, -1)
DropLast(a) == SubSeq(a, 1, Len(a) - 1)

\* path.basename(p): trailing separators are ignored, then what follows the last one
RECURSIVE StripSlashes(_)
StripSlashes(p) ==
  IF Len(p) > 0 /\ p[Len(p)] = "/" THEN StripSlashes(DropLast(p)) ELSE p

Basename(p) ==
  LET parts == Split(StripSlashes(p), "/") IN parts[Len(parts)]

\* os.tmpdir()
TmpDir == <<"/", "t", "m", "p">>

\* path.join(dir, name) for a normalized dir without trailing separator:
\* an empty segment is ignored
PathJoin(dir, name) == IF Len(name) = 0 THEN dir ELSE dir \o <<"/">> \o name

(* ------------------------------ input sets ------------------------------ *)
Str_txt == <<"t", "x", "t">>
Str_pdf == <<"p", "d", "f">>
Str_docx == <<"d", "o", "c", "x">>
Str_txt_pdf == Str_txt \o <<",">> \o Str_pdf
Str_pdfSearchable == Str_pdf \o <<"S", "e", "a", "r", "c", "h", "a", "b", "l", "e">>

Str_pdfTextAndImages ==
  Str_pdf \o <<"T", "e", "x", "t", "A", "n", "d", "I", "m", "a", "g", "e", "s">>

\* values of exportFormat the callers pass, besides the default "txt"
ExportFormats == {Str_txt_pdf, Str_pdfSearchable \o <<",">> \o Str_docx}

\* paths of the files given to process(): with an extension, without a dot,
\* with several dots
FilePaths == { <<"/", "d", "/", "a", ".", "p", "n", "g">>,
               <<"s", "c", "a", "n">>,
               <<"a", ".", "b", ".", "c">> }

\* the targetDir argument of downloadResult(): absent (or empty), or given
TargetDirs == { <<>>, <<"/", "o", "u", "t">> }

\* constructor arguments
Credentials == {Undefined, "", "x"}

\* task ids are GUIDs 8-4-4-4-12; the groups are filled with one digit each
Guid(a, b, c) ==
  Rep(a, 8) \o <<"-">> \o Rep(b, 4) \o <<"-">> \o Rep(b, 4) \o <<"-">>
            \o Rep(b, 4) \o <<"-">> \o Rep(c, 12)

NullGuid == Guid("0", "0", "0")

\* the ids the service answers a submission with: the null GUID, an id whose
\* first group is all zero, an id with zeros but no group of eight
TaskIds == {NullGuid, Guid("0", "a", "a"), Guid("a", "0", "a")}
ZeroChars == {"0", "-"}
AllZero(id) == \A i \in 1..Len(id) : id[i] \in ZeroChars

\* the digits whose run marks a null GUID for waitForCompletion
NullRun == Rep("0", 8)

\* result locations the service hands out for the three positional fields;
\* a field may also be absent or carry the empty string
Url1 == "https://r/1"
Url2 == "https://r/2"
Url3 == "https://r/3"

\* the statuses of a task that ended without a result
FailedStatuses == {"Failed", "NotEnoughCredits"}
ErrorInfos == {Undefined, "X: boom"}

(* ------------------------------- records -------------------------------- *)
\* ProcessingSettings; defined = FALSE stands for a settings field or
\* argument that is undefined
NoSettings ==
  [defined |-> FALSE, language |-> <<>>, exportFormat |-> <<>>, customOptions |-> <<>>]

\* new ProcessingSettings(language = "English", exportFormat = "txt", customOptions = "")
ProcessingSettings(exportFormat) ==
  [defined |-> TRUE, language |-> <<"E", "n", "g", "l", "i", "s", "h">>,
   exportFormat |-> exportFormat, customOptions |-> <<>>]

DefaultSettings == ProcessingSettings(Str_txt)

SettingsArgs == {NoSettings} \cup {ProcessingSettings(f) : f \in ExportFormats}

\* TaskData as mapped from the <task> element
TaskData(id, status, error, r1, r2, r3) ==
  [id |-> id, status |-> status, error |-> error,
   resultUrl |-> r1, resultUrl2 |-> r2, resultUrl3 |-> r3]

NoTask == TaskData(<<>>, Undefined, Undefined, Undefined, Undefined, Undefined)

\* the descriptors a response can carry for the task id; result fields are
\* populated only on a completed task.
\* descriptors of a task that is not finished
ActiveTasks(id) ==
  {TaskData(id, s, Undefined, Undefined, Undefined, Undefined) : s \in {"Queued", "InProgress"}}

\* descriptors of a task that failed
FailedTasks(id) ==
  {TaskData(id, s, e, Undefined, Undefined, Undefined) : s \in FailedStatuses, e \in ErrorInfos}

\* descriptors of a completed task, with the result fields drawn from fields
CompletedTasks(id, fields) ==
  {TaskData(id, "Completed", Undefined, r[1], r[2], r[3]) : r \in fields}

\* errors and rejection reasons
Err(kind, info) == [kind |-> kind, info |-> info]
NoErr == Err("none", "")
ErrTransport == Err("TransportError", "ECONNRESET")
ErrParse == Err("ParseError", "not well-formed")
ErrService == Err("ServiceError", "error.message")
ErrUnknown == Err("Error", "Unknown server response")
ErrNullId == Err("Error", "Null id passed")
ErrRead == Err("Error", "ENOENT")
ErrIncomplete == Err("Error", "Incomplete parameters")
ErrUnexpectedStatus(status) == Err("UnexpectedStatus", status)
ErrTask(payload) == Err("TaskError", payload)
ErrTypeError == Err("TypeError", "exportFormat of undefined")
ErrDownload == Err("Error", "Unexpected response")
ErrWrite == Err("Error", "stream failed")
ErrSubscriber == Err("Error", "thrown by a handler")

\* what a 'data' chunk turns into in parseXmlResponse: one of the failures
\* named in kinds, or one of the descriptors tasks
ChunkOutcomes(kinds, tasks) ==
  {[kind |-> k, task |-> NoTask] : k \in kinds} \cup {[kind |-> "task", task |-> t] : t \in tasks}

(* -------------------------------- state --------------------------------- *)
VARIABLES
  rev,            \* revision of the AbbyyOcr class: 1 = src/index.ts, 2 = the later one
  callerSettings, \* the ProcessingSettings the caller passes, if any
  client,         \* "none", "ready" (constructed) or "threw" (constructor failed)
  ctorArgs,       \* the arguments the constructor was called with
  settings,       \* this.settings
  fileName,       \* this.fileName
  downloadUrls,   \* this.downloadUrls
  urlsOwner,      \* who assigned downloadUrls: "none" (the constructor), the
                  \* "current" process() call or an "earlier" one
  events,         \* what the emitter has emitted since the current call began
  call,           \* the current process() call, with what it has observed
  nCalls,         \* number of process() calls made
  requests,       \* task requests of the current call that may still deliver events
  gen,            \* the current downloadResult() generator
  prevGen,        \* what the generator before it, after the same call, has fetched
  nGens,          \* number of generators created since the current call began
  subscribers,    \* the handlers registered with on(), in registration order:
                  \* what each does when invoked, "returns" or "throws"
  svc,            \* the current callService request (V2 web API) and its outcome
  overlap,        \* two process() calls made without awaiting the first
  cli             \* the command line program: its position, its files, its exit code

vars == <<rev, callerSettings, client, ctorArgs, settings, fileName, downloadUrls,
          urlsOwner, events, call, nCalls, requests, gen, prevGen, nGens, subscribers,
          svc, overlap, cli>>

\* no process() call made yet
NoCall ==
  [pc |-> "idle", filePath |-> <<>>, accepted |-> FALSE, taskId |-> <<>>,
   reason |-> NoErr, final |-> NoTask,
   timers |-> 0, timersArmed |-> 0, queries |-> 0, nActive |-> 0,
   subCb |-> 0, subFirst |-> [err |-> NoErr, task |-> NoTask],
   userCb |-> 0, first |-> [err |-> NoErr, task |-> NoTask],
   clean |-> TRUE, transportFailed |-> FALSE, extra |-> 0]

\* neither of the two calls made; after: the call started while the other
\* one was under way
NoOverlap ==
  [k \in 1..2 |-> [cr |-> NoCall, settingsArg |-> NoSettings, after |-> FALSE]]

\* the command line program before it runs; code is the exit code, -1 while
\* the program has not exited
NoCli == [pc |-> "none", files |-> <<>>, i |-> 0, code |-> -1]

\* no generator created yet
NoGen ==
  [st |-> "none", dirArg |-> <<>>, targetDir |-> <<>>, formats |-> <<>>,
   extensions |-> <<>>, urls |-> <<>>, i |-> 0, fetched |-> <<>>,
   target |-> <<>>, yielded |-> <<>>, reason |-> NoErr,
   emptyAtStart |-> FALSE, missingExt |-> FALSE, requested |-> 0, evBase |-> 0,
   lastFetch |-> "none", started |-> <<>>, written |-> <<>>]

\* exhausted: the generator ran to its end and yielded a path for every url
NoPrevGen == [exhausted |-> FALSE, fetched |-> <<>>]

\* a task as the service holds it: its id, its status, its result locations
ServiceTasks(id) ==
  {[id |-> id, status |-> st, urls |-> <<>>] : st \in {"Queued", "InProgress"}}
  \cup {[id |-> id, status |-> "Completed", urls |-> u] :
          u \in {<<>>, <<Url1>>, <<Url1, Url2>>}}

NoServiceTask == [id |-> <<>>, status |-> Undefined, urls |-> <<>>]

\* what fetch(url, options) settles with: a rejection, or a response with a
\* status and a body that is the JSON of a task, the JSON of an error
\* envelope, or no JSON at all
NoResponse == [net |-> "none", status |-> 0, body |-> "none", task |-> NoServiceTask]

FetchOutcomes(id) ==
  {[NoResponse EXCEPT !.net = "failed"]}
  \cup {[net |-> "response", status |-> 200, body |-> "task", task |-> t] :
          t \in ServiceTasks(id)}
  \cup {[net |-> "response", status |-> c, body |-> b, task |-> NoServiceTask] :
          c \in {200, 401, 500}, b \in {"envelope", "notJson"}}

StatusText(status) ==
  CASE status = 200 -> "OK"
    [] status = 401 -> "Unauthorized"
    [] status = 500 -> "Internal Server Error"
    [] OTHER -> ""

\* an error thrown by callService
ServiceErr(name, status, statusText, url) ==
  [name |-> name, status |-> status, statusText |-> statusText, url |-> url]

NoServiceErr == ServiceErr("none", 0, "", <<>>)

\* no callService request made yet
NoService ==
  [st |-> "idle", method |-> "", taskId |-> <<>>, url |-> <<>>, out |-> NoResponse,
   kind |-> "none", error |-> NoServiceErr, n |-> 0]

(* ---------------------------- Ocrsdk (ocrsdk.js) ------------------------ *)
IsTaskActive(taskData) == taskData.status = "Queued" \/ taskData.status = "InProgress"

\* UserCallback without the test of the final status
UserCallbackNoStatusCheck(cr, err, taskData) ==
  LET cr1 == [cr EXCEPT !.userCb = @ + 1,
                        !.first = IF cr.userCb = 0
                                  THEN [err |-> err, task |-> taskData] ELSE @]
  IN  IF cr.pc # "polling" THEN cr1
      ELSE IF err.kind # "none" THEN [cr1 EXCEPT !.pc = "rejected", !.reason = err]
      ELSE [cr1 EXCEPT !.pc = "resolved", !.final = taskData]

\* the callback process() hands to waitForCompletion; it settles the second
\* promise of the call, which only the first invocation can do
UserCallback(cr, err, taskData) ==
  LET cr1 == [cr EXCEPT !.userCb = @ + 1,
                        !.first = IF cr.userCb = 0
                                  THEN [err |-> err, task |-> taskData] ELSE @]
  IN  IF cr.pc # "polling" THEN cr1
      ELSE IF err.kind # "none" THEN [cr1 EXCEPT !.pc = "rejected", !.reason = err]
      ELSE IF taskData.status # "Completed"
           THEN [cr1 EXCEPT !.pc = "rejected", !.reason = ErrTask(taskData.error)]
      ELSE [cr1 EXCEPT !.pc = "resolved", !.final = taskData]

\* WaitForCompletion without the null id guard
WaitForCompletionNoGuard(cr, taskId) ==
  [cr EXCEPT !.timers = @ + 1, !.timersArmed = @ + 1]

\* waitForCompletion(taskId, userCallback): the guard, then the first timer
WaitForCompletion(cr, taskId) ==
  IF IndexOf(taskId, NullRun) > -1
  THEN UserCallback(cr, ErrNullId, NoTask)
  ELSE [cr EXCEPT !.timers = @ + 1, !.timersArmed = @ + 1]

\* StatusCallback that arms the next timer whatever the status is
StatusCallbackRearm(cr, err, taskData) ==
  IF err.kind # "none" THEN UserCallback(cr, err, NoTask)
  ELSE IF IsTaskActive(taskData)
       THEN [cr EXCEPT !.timers = @ + 1, !.timersArmed = @ + 1, !.nActive = @ + 1]
  ELSE [UserCallback(cr, NoErr, taskData) EXCEPT !.timers = @ + 1, !.timersArmed = @ + 1]

\* the callback waitFunction hands to getTaskStatus
StatusCallback(cr, err, taskData) ==
  IF err.kind # "none" THEN UserCallback(cr, err, NoTask)
  ELSE IF IsTaskActive(taskData)
       THEN [cr EXCEPT !.timers = @ + 1, !.timersArmed = @ + 1, !.nActive = @ + 1]
  ELSE UserCallback(cr, NoErr, taskData)

\* parseXmlResponse(data): whether and with what it calls taskDataCallback
ParseXmlResponse(out) ==
  CASE out.kind = "parseError"   -> [call |-> TRUE, err |-> ErrParse, task |-> NoTask]
    [] out.kind = "serviceError" -> [call |-> TRUE, err |-> ErrService, task |-> NoTask]
    [] out.kind = "unknown"      -> [call |-> TRUE, err |-> ErrUnknown, task |-> NoTask]
    [] out.kind = "empty"        -> [call |-> FALSE, err |-> NoErr, task |-> NoTask]
    [] out.kind = "task"         -> [call |-> TRUE, err |-> NoErr, task |-> out.task]

(* ------------------------ AbbyyOcr (index.ts) --------------------------- *)
\* EventEmitter.emit calls the handlers in registration order; a handler that
\* throws ends the emit, and emit throws what the handler threw
EmitThrows == \E k \in 1..Len(subscribers) : subscribers[k] = "throws"

\* the number of handlers an emit invokes
Notified ==
  IF EmitThrows
  THEN CHOOSE k \in 1..Len(subscribers) :
         subscribers[k] = "throws" /\ \A j \in 1..(k - 1) : subscribers[j] # "throws"
  ELSE Len(subscribers)

\* ConstructorThrows without the test of serviceUrl
ConstructorThrowsNoUrl(appId, password, serviceUrl) ==
  Falsy(appId) \/ Falsy(password)

\* if (!appId || !password || !serviceUrl) throw new Error("Incomplete parameters")
ConstructorThrows(appId, password, serviceUrl) ==
  Falsy(appId) \/ Falsy(password) \/ Falsy(serviceUrl)

\* settings || new ProcessingSettings()
SettingsOrDefault(settingsArg) ==
  IF settingsArg.defined THEN settingsArg ELSE DefaultSettings

\* process() after the first promise resolved: the processing event is
\* emitted (first revision), then waitForCompletion is called
AfterSubmission(cr, taskId) ==
  IF rev = 1 /\ EmitThrows
  THEN [cr EXCEPT !.pc = "rejected", !.reason = ErrSubscriber]
  ELSE WaitForCompletion(cr, taskId)

\* SubmitCallback without the isTaskActive test
SubmitCallbackNoActiveCheck(cr, err, taskData) ==
  LET cr1 == [cr EXCEPT !.subCb = @ + 1,
                        !.subFirst = IF cr.subCb = 0
                                     THEN [err |-> err, task |-> taskData] ELSE @]
  IN  IF cr.pc # "submitting" THEN cr1
      ELSE IF err.kind # "none" THEN [cr1 EXCEPT !.pc = "rejected", !.reason = err]
      ELSE AfterSubmission(
             [cr1 EXCEPT !.pc = "polling", !.accepted = TRUE, !.taskId = taskData.id],
             taskData.id)

\* the callback process() hands to processImage; it settles the first promise
\* and, when that resolved, the call goes on to waitForCompletion
SubmitCallback(cr, err, taskData) ==
  LET cr1 == [cr EXCEPT !.subCb = @ + 1,
                        !.subFirst = IF cr.subCb = 0
                                     THEN [err |-> err, task |-> taskData] ELSE @]
  IN  IF cr.pc # "submitting" THEN cr1
      ELSE IF err.kind # "none" THEN [cr1 EXCEPT !.pc = "rejected", !.reason = err]
      ELSE IF ~IsTaskActive(taskData)
           THEN [cr1 EXCEPT !.pc = "rejected",
                            !.reason = ErrUnexpectedStatus(taskData.status)]
      ELSE AfterSubmission(
             [cr1 EXCEPT !.pc = "polling", !.accepted = TRUE, !.taskId = taskData.id],
             taskData.id)

Truthy(v) == ~Falsy(v)

\* ResultUrls that takes the three fields as they come
ResultUrlsUnfiltered(taskData) ==
  <<taskData.resultUrl, taskData.resultUrl2, taskData.resultUrl3>>

\* the loop over "resultUrl", "resultUrl2", "resultUrl3" at the end of process()
ResultUrls(taskData) ==
  SelectSeq(<<taskData.resultUrl, taskData.resultUrl2, taskData.resultUrl3>>, Truthy)

\* the extension downloadResult derives from one requested format
Extension(format, r) ==
  LET ext == SliceTo(format, 3)
  IN  IF ext \in {Str_pdf, Str_txt}
      THEN (IF r = 1 THEN ext ELSE format \o <<".">> \o ext)
      ELSE format

\* this.settings.exportFormat.split(",").map(...)
Extensions(exportFormat, r) ==
  LET formats == Split(exportFormat, ",")
  IN  [k \in 1..Len(formats) |-> Extension(formats[k], r)]

\* this.fileName.split(".").slice(0,-1).concat([extensions.shift()]).join(".");
\* an undefined element joins as the empty string
TargetFileName(name, extensions) ==
  LET ext == IF Len(extensions) = 0 THEN <<>> ELSE Head(extensions)
  IN  Join(DropLast(Split(name, ".")) \o <<ext>>, ".")

\* IterationSource of a sequencer that drains the array it iterates
IterationSourceDrained == IF prevGen.exhausted THEN <<>> ELSE downloadUrls

\* the array the for-of loop of downloadResult iterates
IterationSource == downloadUrls

Event(name, arg) == [name |-> name, arg |-> arg, notified |-> Notified]

InFlight == call.pc \in {"submitting", "polling"}

\* neither a timer nor a request of the current call is outstanding
Quiet == requests = {} /\ call.timers = 0

GenIdle == gen.st \in {"none", "done", "threw"}

(* -------------------------------- actions ------------------------------- *)
InitClient ==
  /\ rev \in {1, 2}
  /\ client = "none"
  /\ ctorArgs = [appId |-> Undefined, password |-> Undefined, serviceUrl |-> Undefined]
  /\ settings = NoSettings
  /\ fileName = <<>>
  /\ downloadUrls = <<>>
  /\ urlsOwner = "none"
  /\ events = <<>>
  /\ call = NoCall
  /\ nCalls = 0
  /\ requests = {}
  /\ gen = NoGen
  /\ prevGen = NoPrevGen
  /\ nGens = 0
  /\ subscribers = <<>>
  /\ svc = NoService
  /\ overlap = NoOverlap
  /\ cli = NoCli

\* the caller passes no settings
Init == InitClient /\ callerSettings = NoSettings

\* the caller passes any of the settings
InitDownload == InitClient /\ callerSettings \in SettingsArgs

\* new AbbyyOcr(appId, password, serviceUrl[, settings])
Construct(appId, password, serviceUrl) ==
  /\ client = "none"
  /\ ctorArgs' = [appId |-> appId, password |-> password, serviceUrl |-> serviceUrl]
  /\ IF ConstructorThrows(appId, password, serviceUrl)
     THEN /\ client' = "threw"
          /\ UNCHANGED settings
     ELSE /\ client' = "ready"
          /\ settings' = IF rev = 1 THEN SettingsOrDefault(callerSettings) ELSE settings
  /\ UNCHANGED <<cli, overlap, svc, subscribers, rev, callerSettings, fileName, downloadUrls, urlsOwner, events, call,
                 nCalls, requests, gen, prevGen, nGens>>

\* process(filePath[, settings]) up to the submission request being sent.  The
\* caller starts it when the previous call, its transport and the generator
\* have come to rest, and drops the generators of the previous call
Process(filePath, readable) ==
  /\ client = "ready"
  /\ nCalls < MaxCalls
  /\ ~InFlight /\ Quiet /\ GenIdle
  /\ nCalls' = nCalls + 1
  /\ settings' = IF rev = 2 THEN SettingsOrDefault(callerSettings) ELSE settings
  /\ fileName' = IF rev = 1 THEN Basename(filePath) ELSE fileName
  /\ events' = IF rev = 1 THEN <<Event("uploading", Basename(filePath))>> ELSE <<>>
  /\ urlsOwner' = IF urlsOwner = "none" THEN "none" ELSE "earlier"
  /\ gen' = NoGen
  /\ prevGen' = NoPrevGen
  /\ nGens' = 0
  /\ IF rev = 1 /\ EmitThrows
     THEN /\ call' = [NoCall EXCEPT !.pc = "rejected", !.filePath = filePath,
                                    !.reason = ErrSubscriber]
          /\ requests' = {}
     ELSE IF readable
     THEN /\ call' = [NoCall EXCEPT !.pc = "submitting", !.filePath = filePath]
          /\ requests' = {[kind |-> "submit", n |-> 0, chunks |-> 0]}
     ELSE /\ call' = [NoCall EXCEPT !.pc = "rejected", !.filePath = filePath,
                                    !.reason = ErrRead]
          /\ requests' = {}
  /\ UNCHANGED <<cli, overlap, svc, subscribers, rev, callerSettings, client, ctorArgs, downloadUrls>>

\* on(event, handler) with a handler that listens to every event, before the
\* first task run
On(handler) ==
  /\ client = "ready"
  /\ nCalls = 0
  /\ Len(subscribers) < MaxSubscribers
  /\ subscribers' = Append(subscribers, handler)
  /\ UNCHANGED <<cli, overlap, svc, rev, callerSettings, client, ctorArgs, settings, fileName, downloadUrls,
                 urlsOwner, events, call, nCalls, requests, gen, prevGen, nGens>>

\* what a callback does to the call and, through the continuation of
\* process(), to the client
Deliver(cr1) ==
  /\ call' = cr1
  /\ IF call.pc = "polling" /\ cr1.pc = "resolved"
     THEN downloadUrls' = ResultUrls(cr1.final) /\ urlsOwner' = "current"
     ELSE UNCHANGED <<downloadUrls, urlsOwner>>
  /\ events' = IF rev = 1 /\ ~call.accepted /\ cr1.accepted
               THEN Append(events, Event("processing", fileName)) ELSE events

\* a 'data' event on the response of request r
DataChunk(r, out) ==
  /\ r \in requests
  /\ r.chunks = 0 \/ call.extra < MaxExtraEvents
  /\ requests' = (requests \ {r}) \cup {[r EXCEPT !.chunks = @ + 1]}
  /\ LET a == ParseXmlResponse(out)
         cr1 == IF ~a.call THEN call
                ELSE IF r.kind = "submit" THEN SubmitCallback(call, a.err, a.task)
                ELSE StatusCallback(call, a.err, a.task)
         single == r.kind = "status" => (r.chunks = 0 /\ out.kind = "task")
     IN  Deliver([cr1 EXCEPT !.clean = @ /\ single,
                             !.extra = IF r.chunks = 0 THEN @ ELSE @ + 1])
  /\ UNCHANGED <<cli, overlap, svc, subscribers, rev, callerSettings, client, ctorArgs, settings, fileName, nCalls,
                 gen, prevGen, nGens>>

\* an 'error' event on request r
RequestError(r) ==
  /\ r \in requests
  /\ r.chunks = 0 \/ call.extra < MaxExtraEvents
  /\ requests' = requests \ {r}
  /\ LET cr1 == IF r.kind = "submit" THEN SubmitCallback(call, ErrTransport, NoTask)
                ELSE StatusCallback(call, ErrTransport, NoTask)
     IN  Deliver([cr1 EXCEPT !.clean = @ /\ r.kind # "status",
                             !.transportFailed = @ \/ r.kind = "status",
                             !.extra = IF r.chunks = 0 THEN @ ELSE @ + 1])
  /\ UNCHANGED <<cli, overlap, svc, subscribers, rev, callerSettings, client, ctorArgs, settings, fileName, nCalls,
                 gen, prevGen, nGens>>

\* the response of request r ends: no further event comes
ResponseEnd(r) ==
  /\ r \in requests
  /\ requests' = requests \ {r}
  /\ UNCHANGED <<cli, overlap, svc, subscribers, rev, callerSettings, client, ctorArgs, settings, fileName, downloadUrls,
                 urlsOwner, events, call, nCalls, gen, prevGen, nGens>>

\* a timer of the call fires: waitFunction issues getTaskStatus
TimerFire ==
  /\ call.timers > 0
  /\ call.queries < MaxQueries
  /\ call' = [call EXCEPT !.timers = @ - 1, !.queries = @ + 1]
  /\ requests' = requests \cup {[kind |-> "status", n |-> call.queries + 1, chunks |-> 0]}
  /\ UNCHANGED <<cli, overlap, svc, subscribers, rev, callerSettings, client, ctorArgs, settings, fileName, downloadUrls,
                 urlsOwner, events, nCalls, gen, prevGen, nGens>>

\* what the service may answer to request r: a submission is answered with
\* one of submitAnswers, a status query with a failure of kinds or a descriptor
\* of the task asked for
Answers(r, submitAnswers, kinds, active, fields) ==
  IF r.kind = "submit" THEN submitAnswers
  ELSE ChunkOutcomes(kinds,
         (IF active THEN ActiveTasks(call.taskId) ELSE {})
         \cup FailedTasks(call.taskId) \cup CompletedTasks(call.taskId, fields))

(* ------------------------ downloadResult (generator) -------------------- *)
\* downloadResult(targetDir): the generator object is created, no code runs
DownloadResult(targetDir) ==
  /\ client = "ready"
  /\ nGens < MaxGens
  /\ ~InFlight /\ Quiet /\ GenIdle
  /\ nGens' = nGens + 1
  /\ prevGen' = IF gen.st = "done" /\ Len(gen.yielded) = Len(gen.urls)
                THEN [exhausted |-> TRUE, fetched |-> gen.fetched]
                ELSE NoPrevGen
  /\ gen' = [NoGen EXCEPT !.st = "created", !.dirArg = targetDir,
                          !.evBase = Len(events)]
  /\ UNCHANGED <<cli, overlap, svc, subscribers, rev, callerSettings, client, ctorArgs, settings, fileName, downloadUrls,
                 urlsOwner, events, call, nCalls, requests>>

\* LoopHead that fetches every remaining url as soon as the loop is entered
LoopHeadEager(g) ==
  IF g.i < Len(g.urls)
  THEN [g EXCEPT !.st = "fetching", !.i = @ + 1, !.fetched = g.urls]
  ELSE [g EXCEPT !.st = "done"]

\* the loop head of the generator g: the next url is fetched, or the loop ends
LoopHead(g) ==
  IF g.i < Len(g.urls)
  THEN [g EXCEPT !.st = "fetching", !.i = @ + 1, !.fetched = Append(@, g.urls[g.i + 1])]
  ELSE [g EXCEPT !.st = "done"]

\* the consumer requests the next item
GenNext ==
  /\ gen.st \in {"created", "yielded"}
  /\ LET g == [gen EXCEPT !.requested = @ + 1]
     IN  gen' = IF gen.st = "yielded" THEN LoopHead(g)
                ELSE IF ~settings.defined
                THEN [g EXCEPT !.st = "threw", !.reason = ErrTypeError,
                               !.emptyAtStart = (downloadUrls = <<>>)]
                ELSE LoopHead([g EXCEPT
                       !.targetDir = IF Len(gen.dirArg) = 0 THEN TmpDir ELSE gen.dirArg,
                       !.formats = Split(settings.exportFormat, ","),
                       !.extensions = Extensions(settings.exportFormat, rev),
                       !.urls = IterationSource,
                       !.emptyAtStart = (downloadUrls = <<>>)])
  /\ UNCHANGED <<cli, overlap, svc, subscribers, rev, callerSettings, client, ctorArgs, settings, fileName, downloadUrls,
                 urlsOwner, events, call, nCalls, requests, prevGen, nGens>>

\* ResponseOk that takes every response for an ok one
ResponseOkAlways(res) == res # "rejected"

\* response.ok, for a fetch that settled with a response
ResponseOk(res) == res = "ok"

\* DownloadingEvent that carries the target path instead of the file name
DownloadingEventWithPath(g, name) == Event("downloading", g.target)

\* this.emitter.emit(AbbyyOcr.event.downloading, fileName) in the step of g
DownloadingEvent(g, name) == Event("downloading", name)

\* fetch(url) settles: rejected, a response that is not ok, or an ok response
FetchDone(res) ==
  /\ gen.st = "fetching"
  /\ IF res # "rejected" /\ ResponseOk(res)
     THEN LET name == TargetFileName(fileName, gen.extensions)
              g == [gen EXCEPT !.lastFetch = res,
                               !.missingExt = @ \/ Len(gen.extensions) = 0,
                               !.extensions = IF Len(@) = 0 THEN @ ELSE Tail(@),
                               !.target = PathJoin(gen.targetDir, name)]
          IN  /\ gen' = IF EmitThrows
                        THEN [g EXCEPT !.st = "threw", !.reason = ErrSubscriber]
                        ELSE [g EXCEPT !.st = "writing", !.started = Append(@, g.target)]
              /\ events' = Append(events, DownloadingEvent(g, name))
     ELSE /\ gen' = [gen EXCEPT !.st = "threw",
                                !.lastFetch = res,
                                !.reason = IF res = "rejected" THEN ErrTransport
                                           ELSE ErrDownload]
          /\ UNCHANGED events
  /\ UNCHANGED <<cli, overlap, svc, subscribers, rev, callerSettings, client, ctorArgs, settings, fileName, downloadUrls,
                 urlsOwner, call, nCalls, requests, prevGen, nGens>>

\* AfterWrite that yields the path without awaiting the outcome of the write
AfterWriteNoAwait(g, ok) ==
  [g EXCEPT !.st = "yielded", !.yielded = Append(@, g.target)]

\* await streamPipeline(...); yield targetPath: the await throws when the
\* pipeline failed
AfterWrite(g, ok) ==
  IF ok THEN [g EXCEPT !.st = "yielded", !.yielded = Append(@, g.target)]
  ELSE [g EXCEPT !.st = "threw", !.reason = ErrWrite]

\* streamPipeline(response.body, createWriteStream(targetPath)) settles
WriteDone(ok) ==
  /\ gen.st = "writing"
  /\ gen' = AfterWrite([gen EXCEPT !.written = IF ok THEN Append(@, gen.target) ELSE @], ok)
  /\ UNCHANGED <<cli, overlap, svc, subscribers, rev, callerSettings, client, ctorArgs, settings, fileName, downloadUrls,
                 urlsOwner, events, call, nCalls, requests, prevGen, nGens>>

FetchResults == {"ok", "notOk", "rejected"}

(* --------------------------- callService (V2 API) ----------------------- *)
\* `${this.serviceUrl}/v2/${methodName}?${querystring.stringify(params)}`
ServiceUrl(serviceUrl, methodName, taskId) ==
  <<serviceUrl, "/v2/", methodName, "?">>
  \o (IF Len(taskId) = 0 THEN <<>> ELSE <<"taskId=">> \o taskId)

\* the record the legacy transport hands to its callback for the task t:
\* the attributes of the <task> element
XmlRecord(t) ==
  TaskData(t.id, t.status, Undefined,
           IF Len(t.urls) >= 1 THEN t.urls[1] ELSE Undefined,
           IF Len(t.urls) >= 2 THEN t.urls[2] ELSE Undefined,
           IF Len(t.urls) >= 3 THEN t.urls[3] ELSE Undefined)

\* the record callService returns for the task t: the decoded JSON body, a
\* TaskStatusResponse
JsonRecord(t) == [taskId |-> t.id, status |-> t.status, resultUrls |-> t.urls]

\* how callService ends for the outcome out of its fetch: it returns what
\* response.json() decodes, whatever the status of the response, and throws
\* when fetch or response.json() rejects
CallServiceEnd(r, url, out) ==
  IF out.net = "failed"
  THEN [kind |-> "threw",
        error |-> IF r = 1 THEN ServiceErr("FetchError", 0, "", <<>>)
                  ELSE ServiceErr("TypeError", 0, "", <<>>)]
  ELSE IF out.body = "notJson"
  THEN [kind |-> "threw",
        error |-> IF r = 1 THEN ServiceErr("FetchError", 0, "", <<>>)
                  ELSE ServiceErr("Error", out.status, StatusText(out.status), url)]
  ELSE [kind |-> "returned", error |-> NoServiceErr]

\* callService(verb, methodName, params) up to the request being sent
CallService(methodName, taskId) ==
  /\ client = "ready"
  /\ svc.st # "fetching"
  /\ svc.n < MaxServiceCalls
  /\ svc' = [NoService EXCEPT !.st = "fetching", !.method = methodName,
                              !.taskId = taskId,
                              !.url = ServiceUrl(ctorArgs.serviceUrl, methodName, taskId),
                              !.n = svc.n + 1]
  /\ UNCHANGED <<cli, overlap, subscribers, rev, callerSettings, client, ctorArgs, settings, fileName,
                 downloadUrls, urlsOwner, events, call, nCalls, requests, gen, prevGen,
                 nGens>>

\* the fetch of callService settles
ServiceResponse(out) ==
  /\ svc.st = "fetching"
  /\ LET e == CallServiceEnd(rev, svc.url, out)
     IN  svc' = [svc EXCEPT !.st = "settled", !.out = out, !.kind = e.kind,
                            !.error = e.error]
  /\ UNCHANGED <<cli, overlap, subscribers, rev, callerSettings, client, ctorArgs, settings, fileName,
                 downloadUrls, urlsOwner, events, call, nCalls, requests, gen, prevGen,
                 nGens>>

(* ------------------------ overlapping process() calls ------------------- *)
\* what the k-th of the two calls is given, and what the service holds for it
OverlapFile(k) ==
  IF k = 1 THEN <<"/", "d", "/", "a", ".", "p", "n", "g">> ELSE <<"s", "c", "a", "n">>
OverlapSettings(k) ==
  IF k = 1 THEN {ProcessingSettings(Str_txt_pdf)}
  ELSE {NoSettings, ProcessingSettings(Str_pdfSearchable \o <<",">> \o Str_docx)}
OverlapId(k) == IF k = 1 THEN Guid("a", "0", "a") ELSE Guid("b", "0", "b")
OverlapFields(k) ==
  IF k = 1 THEN {<<Url1, Undefined, Undefined>>}
  ELSE {<<Url2, Undefined, Undefined>>, <<Url2, Url3, Undefined>>}

\* process(filePath[, settings]) for the k-th call, up to the submission
\* request being sent; the second call does not wait for the first
OverlapProcess(k, filePath, settingsArg) ==
  /\ client = "ready"
  /\ overlap[k].cr.pc = "idle"
  /\ k = 2 => overlap[1].cr.pc # "idle"
  /\ settings' = IF rev = 2 THEN SettingsOrDefault(settingsArg) ELSE settings
  /\ fileName' = IF rev = 1 THEN Basename(filePath) ELSE fileName
  /\ events' = IF rev = 1 THEN Append(events, Event("uploading", Basename(filePath)))
               ELSE events
  /\ overlap' = [overlap EXCEPT ![k] =
                   [cr |-> [NoCall EXCEPT !.pc = "submitting", !.filePath = filePath],
                    settingsArg |-> settingsArg,
                    after |-> k = 2 /\ overlap[1].cr.pc \in {"submitting", "polling"}]]
  /\ UNCHANGED <<cli, svc, subscribers, rev, callerSettings, client, ctorArgs, downloadUrls,
                 urlsOwner, call, nCalls, requests, gen, prevGen, nGens>>

\* the submission of the k-th call is answered with the descriptor taskData
OverlapSubmitted(k, taskData) ==
  /\ overlap[k].cr.pc = "submitting"
  /\ LET cr1 == SubmitCallback(overlap[k].cr, NoErr, taskData)
     IN  /\ overlap' = [overlap EXCEPT ![k].cr = cr1]
         /\ events' = IF rev = 1 /\ cr1.accepted
                      THEN Append(events, Event("processing", fileName)) ELSE events
  /\ UNCHANGED <<cli, svc, subscribers, rev, callerSettings, client, ctorArgs, settings,
                 fileName, downloadUrls, urlsOwner, call, nCalls, requests, gen, prevGen,
                 nGens>>

\* a timer of the k-th call fires and its status query is answered with the
\* descriptor taskData
OverlapPolled(k, taskData) ==
  /\ overlap[k].cr.pc = "polling"
  /\ overlap[k].cr.timers > 0
  /\ overlap[k].cr.queries < MaxQueries
  /\ LET cr0 == [overlap[k].cr EXCEPT !.timers = @ - 1, !.queries = @ + 1]
         cr1 == StatusCallback(cr0, NoErr, taskData)
     IN  /\ overlap' = [overlap EXCEPT ![k].cr = cr1]
         /\ IF cr1.pc = "resolved"
            THEN downloadUrls' = ResultUrls(cr1.final) /\ urlsOwner' = "current"
            ELSE UNCHANGED <<downloadUrls, urlsOwner>>
  /\ UNCHANGED <<cli, svc, subscribers, rev, callerSettings, client, ctorArgs, settings,
                 fileName, events, call, nCalls, requests, gen, prevGen, nGens>>

(* --------------------------- command line (run.ts) ---------------------- *)
\* process.exit(code), or the end of the program
Exit(c, code) == [c EXCEPT !.pc = "exited", !.code = code]

\* the handlers an error thrown in processFiles reaches: the try/catch around
\* program.parseAsync() (exit 1, or rethrow) and the .catch of the main
\* function (exit 1)
Catch(c, err) == Exit(c, 1)

\* after the client was constructed: the loop over the files starts; a
\* constructor that threw is caught
AfterConstruct(c) ==
  IF client = "threw" THEN Catch(c, ErrIncomplete)
  ELSE IF Len(c.files) = 0 THEN Exit(c, 0)
  ELSE [c EXCEPT !.pc = "process", !.i = 1]

\* after await process(filePath): the for-await loop starts, or the
\* rejection is caught
AfterProcess(c) ==
  IF call.pc = "rejected" THEN Catch(c, call.reason)
  ELSE [c EXCEPT !.pc = "download"]

\* AfterDownload of a program that goes on with the next file when a step of
\* the sequence threw
AfterDownloadIgnoresError(c) ==
  IF c.i < Len(c.files) THEN [c EXCEPT !.pc = "process", !.i = @ + 1]
  ELSE Exit(c, 0)

\* after the for-await loop over downloadResult(): the next file, the end of
\* the program, or the error of a step is caught
AfterDownload(c) ==
  IF gen.st = "threw" THEN Catch(c, gen.reason)
  ELSE IF c.i < Len(c.files) THEN [c EXCEPT !.pc = "process", !.i = @ + 1]
  ELSE Exit(c, 0)

\* the program is started with the files given on the command line
CliRun(files) ==
  /\ cli.pc = "none"
  /\ client = "none"
  /\ cli' = [NoCli EXCEPT !.pc = "construct", !.files = files]
  /\ UNCHANGED <<overlap, svc, subscribers, rev, callerSettings, client, ctorArgs, settings,
                 fileName, downloadUrls, urlsOwner, events, call, nCalls, requests, gen,
                 prevGen, nGens>>

\* the program continues after new AbbyyOcr(...)
CliConstructed ==
  /\ cli.pc = "construct"
  /\ client # "none"
  /\ cli' = AfterConstruct(cli)
  /\ UNCHANGED <<overlap, svc, subscribers, rev, callerSettings, client, ctorArgs, settings,
                 fileName, downloadUrls, urlsOwner, events, call, nCalls, requests, gen,
                 prevGen, nGens>>

\* the promise of process() for the current file has settled
CliProcessSettled ==
  /\ cli.pc = "process"
  /\ nCalls = cli.i
  /\ call.pc \in {"resolved", "rejected"}
  /\ cli' = AfterProcess(cli)
  /\ UNCHANGED <<overlap, svc, subscribers, rev, callerSettings, client, ctorArgs, settings,
                 fileName, downloadUrls, urlsOwner, events, call, nCalls, requests, gen,
                 prevGen, nGens>>

\* the for-await loop over downloadResult() has ended or thrown
CliDownloadSettled ==
  /\ cli.pc = "download"
  /\ nGens = 1
  /\ gen.st \in {"done", "threw"}
  /\ cli' = AfterDownload(cli)
  /\ UNCHANGED <<overlap, svc, subscribers, rev, callerSettings, client, ctorArgs, settings,
                 fileName, downloadUrls, urlsOwner, events, call, nCalls, requests, gen,
                 prevGen, nGens>>

(* ----------------------------- specifications --------------------------- *)
\* The life of one process() call on a fresh client, over every shape of
\* response the transport can deliver
PollFile == <<"/", "d", "/", "a", ".", "p", "n", "g">>
PollKinds == {"parseError", "empty"}
PollFields == {<<Undefined, Undefined, Undefined>>, <<Url1, "", Url3>>}
PollSubmitAnswers ==
  ChunkOutcomes(PollKinds,
    UNION {ActiveTasks(id) : id \in TaskIds}
    \cup FailedTasks(NullGuid) \cup CompletedTasks(NullGuid, PollFields))

Next ==
  \/ \E a \in Credentials, p \in Credentials, u \in Credentials : Construct(a, p, u)
  \/ \E ok \in BOOLEAN : nCalls = 0 /\ Process(PollFile, ok)
  \/ \E r \in requests :
        \E out \in Answers(r, PollSubmitAnswers, PollKinds, TRUE, PollFields) :
          DataChunk(r, out)
  \/ \E r \in requests : RequestError(r)
  \/ \E r \in requests : ResponseEnd(r)
  \/ TimerFire

Spec == Init /\ [][Next]_vars

\* Calls and download sequences one after the other, over a transport that
\* answers every request with one event and a service that has finished the
\* task when it is first asked
GoodId == Guid("a", "0", "a")
DownloadKinds == {"serviceError", "unknown"}
DownloadFields ==
  { <<Undefined, Undefined, Undefined>>, <<Url1, Undefined, Undefined>>,
    <<Url1, Url2, Undefined>>, <<Url1, Url2, Url3>> }
DownloadSubmitAnswers ==
  ChunkOutcomes({"unknown"}, ActiveTasks(GoodId) \cup CompletedTasks(GoodId, DownloadFields))

NextDownload ==
  \/ \E a \in Credentials, p \in Credentials, u \in Credentials : Construct(a, p, u)
  \/ \E f \in FilePaths : Process(f, TRUE)
  \/ \E r \in requests :
        \E out \in Answers(r, DownloadSubmitAnswers, DownloadKinds, FALSE, DownloadFields) :
          r.chunks = 0 /\ DataChunk(r, out)
  \/ \E r \in requests : r.chunks = 1 /\ ResponseEnd(r)
  \/ TimerFire
  \/ \E d \in TargetDirs : DownloadResult(d)
  \/ GenNext
  \/ \E res \in FetchResults : FetchDone(res)
  \/ \E ok \in BOOLEAN : WriteDone(ok)

SpecDownload == InitDownload /\ [][NextDownload]_vars

\* Runs whose settings ask for two distinct formats, two of them lists of
\* formats of the same family, and whose task completes with two results
FormatLists ==
  ExportFormats \cup {Str_pdfSearchable \o <<",">> \o Str_pdfTextAndImages}

InitFormats == InitClient /\ callerSettings \in {ProcessingSettings(f) : f \in FormatLists}

FormatsFields == {<<Url1, Url2, Undefined>>}

FormatsSubmitAnswers == ChunkOutcomes({}, ActiveTasks(GoodId))

NextFormats ==
  \/ \E a \in Credentials, p \in Credentials, u \in Credentials : Construct(a, p, u)
  \/ \E f \in FilePaths : Process(f, TRUE)
  \/ \E r \in requests :
        \E out \in Answers(r, FormatsSubmitAnswers, {}, FALSE, FormatsFields) :
          r.chunks = 0 /\ DataChunk(r, out)
  \/ \E r \in requests : r.chunks = 1 /\ ResponseEnd(r)
  \/ TimerFire
  \/ \E d \in TargetDirs : DownloadResult(d)
  \/ GenNext
  \/ \E res \in FetchResults : FetchDone(res)
  \/ \E ok \in BOOLEAN : WriteDone(ok)

SpecFormats == InitFormats /\ [][NextFormats]_vars

\* The command line program run on one or two files: it constructs the
\* client, and for each file awaits process() and then iterates
\* downloadResult(); nothing runs once it has exited
CliFileLists ==
  { <<PollFile>>, <<PollFile, <<"s", "c", "a", "n">>>>, <<<<"s", "c", "a", "n">>, PollFile>> }

CliSettings == {DefaultSettings, ProcessingSettings(Str_txt_pdf)}

CliFields == {<<Url1, Undefined, Undefined>>, <<Url1, Url2, Undefined>>}

CliSubmitAnswers == ChunkOutcomes({"unknown"}, ActiveTasks(GoodId))

\* the first revision of the program calls downloadResult() without a
\* directory, the later one with the --output-path option
CliTargetDirs == IF rev = 1 THEN {<<>>} ELSE TargetDirs

InitCli == InitClient /\ callerSettings \in CliSettings

NextCli ==
  \/ \E files \in CliFileLists : CliRun(files)
  \/ /\ cli.pc = "construct"
     /\ \E a \in Credentials, p \in Credentials, u \in Credentials : Construct(a, p, u)
  \/ CliConstructed
  \/ /\ cli.pc = "process"
     /\ nCalls < cli.i
     /\ \E readable \in BOOLEAN : Process(cli.files[cli.i], readable)
  \/ /\ cli.pc # "exited"
     /\ \E r \in requests :
          \/ \E out \in Answers(r, CliSubmitAnswers, {"serviceError"}, FALSE, CliFields) :
                r.chunks = 0 /\ DataChunk(r, out)
          \/ r.chunks = 0 /\ RequestError(r)
          \/ r.chunks = 1 /\ ResponseEnd(r)
  \/ cli.pc # "exited" /\ TimerFire
  \/ CliProcessSettled
  \/ /\ cli.pc = "download"
     /\ nGens = 0
     /\ \E d \in CliTargetDirs : DownloadResult(d)
  \/ cli.pc = "download" /\ GenNext
  \/ cli.pc = "download" /\ \E res \in FetchResults : FetchDone(res)
  \/ cli.pc = "download" /\ \E ok \in BOOLEAN : WriteDone(ok)
  \/ CliDownloadSettled

SpecCli == InitCli /\ [][NextCli]_vars

\* One process() call under fair scheduling: an armed timer fires, and every
\* request sent gets its response (with a body of one chunk, or without a
\* body) or its 'error' event.  The task has left the active states when the
\* last status query the bound allows is answered.
LiveSubmitAnswers ==
  ChunkOutcomes(PollKinds, ActiveTasks(GoodId) \cup FailedTasks(GoodId))

LiveAnswers(r) ==
  Answers(r, LiveSubmitAnswers, PollKinds, call.queries < MaxQueries, PollFields)

\* the response or the 'error' event of an open request arrives
RequestSettles ==
  \E r \in requests :
    \/ \E out \in LiveAnswers(r) : r.chunks = 0 /\ DataChunk(r, out)
    \/ r.chunks = 0 /\ RequestError(r)
    \/ ResponseEnd(r)

NextLive ==
  \/ \E a \in Credentials, p \in Credentials, u \in Credentials : Construct(a, p, u)
  \/ \E ok \in BOOLEAN : nCalls = 0 /\ Process(PollFile, ok)
  \/ RequestSettles
  \/ TimerFire

SpecLive ==
  Init /\ [][NextLive]_vars /\ WF_vars(TimerFire) /\ WF_vars(RequestSettles)

\* Runs of one file with up to MaxSubscribers handlers registered before the
\* first of them; every request, fetch and write succeeds
Handlers == {"returns", "throws"}
SubscriberFields == {<<Url1, Undefined, Undefined>>, <<Url1, Url2, Undefined>>}
SubscriberSubmitAnswers == ChunkOutcomes({}, ActiveTasks(GoodId))

NextSubscribers ==
  \/ \E a \in Credentials, p \in Credentials, u \in Credentials : Construct(a, p, u)
  \/ \E h \in Handlers : On(h)
  \/ Process(PollFile, TRUE)
  \/ \E r \in requests :
        \E out \in Answers(r, SubscriberSubmitAnswers, {}, FALSE, SubscriberFields) :
          r.chunks = 0 /\ DataChunk(r, out)
  \/ \E r \in requests : r.chunks = 1 /\ ResponseEnd(r)
  \/ TimerFire
  \/ DownloadResult(<<>>)
  \/ GenNext
  \/ FetchDone("ok")
  \/ WriteDone(TRUE)

SpecSubscribers == Init /\ [][NextSubscribers]_vars

\* Two process() calls on one client, the second made without awaiting the
\* first, every request answered with one descriptor
NextOverlap ==
  \/ \E a \in Credentials, p \in Credentials, u \in Credentials : Construct(a, p, u)
  \/ \E k \in 1..2 : \E sa \in OverlapSettings(k) : OverlapProcess(k, OverlapFile(k), sa)
  \/ \E k \in 1..2 : \E t \in ActiveTasks(OverlapId(k)) : OverlapSubmitted(k, t)
  \/ \E k \in 1..2 :
        \E t \in ActiveTasks(OverlapId(k))
                 \cup CompletedTasks(OverlapId(k), OverlapFields(k)) :
          OverlapPolled(k, t)

SpecOverlap == Init /\ [][NextOverlap]_vars

\* Requests to the V2 web API through getTaskStatus(taskId) and
\* listFinishedTasks(), over every outcome of the fetch; the list of finished
\* tasks holds one task
NextService ==
  \/ \E a \in Credentials, p \in Credentials, u \in Credentials : Construct(a, p, u)
  \/ \E id \in TaskIds : CallService("getTaskStatus", id)
  \/ CallService("listFinishedTasks", <<>>)
  \/ \E out \in FetchOutcomes(IF Len(svc.taskId) = 0 THEN GoodId ELSE svc.taskId) :
        ServiceResponse(out)

SpecService == Init /\ [][NextService]_vars

(* -------------------------------- claims -------------------------------- *)
\* C1: constructing a client succeeds exactly when appId, password and
\* serviceUrl are all non-empty; with one of them empty or missing the
\* constructor throws and no client exists.
C1_ConstructorChecksAllThree ==
  client # "none" =>
    (client = "ready" <=> /\ ~Falsy(ctorArgs.appId)
                          /\ ~Falsy(ctorArgs.password)
                          /\ ~Falsy(ctorArgs.serviceUrl))

\* the constructor threw although only serviceUrl was missing
C1_Witness ==
  /\ client = "threw"
  /\ ctorArgs.appId = "x" /\ ctorArgs.password = "x" /\ Falsy(ctorArgs.serviceUrl)

\* C2: every status query is issued by a timer of its own, and when the
\* queries of one waitForCompletion call are answered (one descriptor per
\* response) n times with an active status and then with Completed, exactly
\* n+1 queries have been issued, no timer is left, and the callback was
\* invoked once, with the Completed descriptor.
C2_OneQueryPerAnswer ==
  /\ call.queries + call.timers = call.timersArmed
  /\ (/\ call.clean
      /\ call.userCb >= 1
      /\ call.first.err = NoErr
      /\ call.first.task.status = "Completed")
     => /\ call.queries = call.nActive + 1
        /\ call.timersArmed = call.queries
        /\ call.timers = 0
        /\ call.userCb = 1
        /\ call.pc = "resolved"
        /\ call.final = call.first.task

\* two active answers, then Completed: three queries
C2_Witness ==
  /\ call.clean
  /\ call.nActive = 2
  /\ call.queries = 3
  /\ call.timersArmed = 3
  /\ call.userCb = 1
  /\ call.first.task.status = "Completed"
  /\ call.pc = "resolved"

\* C3: when polling ends with a status that is neither active nor Completed,
\* process() rejects, and the rejection reason is the error field of the
\* descriptor the poll returned.
C3_FailedTaskRejectsWithItsError ==
  (/\ call.userCb >= 1
   /\ call.first.err = NoErr
   /\ call.first.task.status # "Completed")
  => /\ call.pc = "rejected"
     /\ call.reason = ErrTask(call.first.task.error)

\* a task that ended Failed with an error payload
C3_Witness ==
  /\ call.userCb >= 1
  /\ call.first.err = NoErr
  /\ call.first.task.status = "Failed"
  /\ call.first.task.error = "X: boom"
  /\ call.pc = "rejected"
  /\ call.reason = ErrTask("X: boom")

C5_InactiveSubmissionRejects ==
  (/\ call.subCb >= 1
   /\ call.subFirst.err = NoErr
   /\ ~IsTaskActive(call.subFirst.task))
  => /\ call.pc = "rejected"
     /\ call.reason = ErrUnexpectedStatus(call.subFirst.task.status)
     /\ ~call.accepted
     /\ call.timersArmed = 0
     /\ call.queries = 0
     /\ call.userCb = 0
     /\ \A k \in 1..Len(events) : events[k].name # "processing"

\* the submission of the emitting revision was answered with a finished task
C5_Witness ==
  /\ rev = 1
  /\ call.subCb >= 1
  /\ call.subFirst.err = NoErr
  /\ call.subFirst.task.status = "Completed"
  /\ call.pc = "rejected"
  /\ events = <<Event("uploading", Basename(call.filePath))>>

\* C6: waitForCompletion called with a task id made of zero digits only (the
\* null GUID) has invoked the callback with the null-id error when it
\* returns: no timer was armed, no status query issued, no request is open.
C6_NullIdFailsAtOnce ==
  (call.accepted /\ AllZero(call.taskId))
  => /\ call.userCb = 1
     /\ call.first.err = ErrNullId
     /\ call.pc = "rejected"
     /\ call.reason = ErrNullId
     /\ call.timersArmed = 0
     /\ call.queries = 0
     /\ \A r \in requests : r.kind # "status"

\* the submission was accepted with the null GUID as the task id
C6_Witness ==
  /\ call.accepted
  /\ call.taskId = NullGuid
  /\ call.userCb = 1
  /\ call.pc = "rejected"
  /\ call.reason = ErrNullId

\* C7, as the specification states it: after a successful process() whose
\* descriptor has n result urls, with n formats requested and every fetch and
\* write succeeding, the sequence yields n paths in the order of the urls,
\* the i-th made of the target directory, the uploaded file's name without
\* its last extension, a dot and the extension of the i-th format.
C7_Stated ==
  LET n == Len(gen.urls)
      parts == Split(Basename(call.filePath), ".")
      stem == IF Len(parts) = 1 THEN parts[1] ELSE Join(DropLast(parts), ".")
      short(f) == IF SliceTo(f, 3) \in {Str_pdf, Str_txt} THEN SliceTo(f, 3) ELSE f
  IN  (/\ call.pc = "resolved"
       /\ urlsOwner = "current"
       /\ gen.st = "done"
       /\ n >= 1
       /\ Len(gen.formats) = n)
      => /\ gen.fetched = downloadUrls
         /\ Len(gen.yielded) = n
         /\ \A i \in 1..Len(gen.yielded) :
              gen.yielded[i] =
                PathJoin(gen.targetDir, stem \o <<".">> \o short(gen.formats[i]))

\* C8, as the specification states it: a sequence started while downloadUrls
\* is empty ends at the first request, having fetched nothing, yielded
\* nothing, emitted nothing and raised no error.
C8_Stated ==
  (gen.requested >= 1 /\ gen.emptyAtStart)
  => /\ gen.st = "done"
     /\ gen.reason = NoErr
     /\ gen.fetched = <<>>
     /\ gen.yielded = <<>>
     /\ Len(events) = gen.evBase

\* C9, as the specification states it: no step builds a file name from an
\* extension that is missing, and a sequence over at least one url does not
\* end normally while extensions remain.
C9_Stated ==
  /\ ~gen.missingExt
  /\ (gen.st = "done" /\ Len(gen.urls) >= 1) => Len(gen.extensions) = 0

\* C10, as the specification states it: after a sequence has yielded every
\* result url, a further sequence on the same client, with no process() in
\* between, fetches nothing and yields nothing.
C10_Stated ==
  (prevGen.exhausted /\ gen.requested >= 1)
  => (gen.fetched = <<>> /\ gen.yielded = <<>>)

\* C10, amended: downloadUrls is not drained.  A further sequence, with no
\* process() in between, iterates the same urls again: it fetches them in the
\* same order, as far as it gets, and all of them when it runs to its end.
C10_SequenceRestarts ==
  (prevGen.exhausted /\ gen.requested >= 1)
  => /\ gen.urls = prevGen.fetched
     /\ gen.fetched = SubSeq(prevGen.fetched, 1, Len(gen.fetched))
     /\ gen.st = "done" => gen.fetched = prevGen.fetched

\* a second sequence fetched and yielded two urls over again
C10_Witness ==
  /\ prevGen.exhausted
  /\ Len(prevGen.fetched) = 2
  /\ gen.st = "done"
  /\ gen.fetched = prevGen.fetched
  /\ Len(gen.yielded) = 2

\* the downloading events emitted since the current generator was created
DownloadingEvents ==
  SelectSeq(SubSeq(events, gen.evBase + 1, Len(events)),
            LAMBDA e : e.name = "downloading")

\* C11: when the fetch of a step returned a response that is not ok, the
\* sequence has thrown the download error: that step emitted no downloading
\* event, started no write and yielded no path, and the sequence fetches no
\* further url.
C11_NotOkEndsSequence ==
  gen.lastFetch = "notOk"
  => /\ gen.st = "threw"
     /\ gen.reason = ErrDownload
     /\ Len(gen.yielded) = Len(gen.fetched) - 1
     /\ Len(gen.started) = Len(gen.fetched) - 1
     /\ Len(DownloadingEvents) = Len(gen.fetched) - 1
     /\ gen.i = Len(gen.fetched)

\* the second of three urls was answered with a response that is not ok
C11_Witness ==
  /\ gen.lastFetch = "notOk"
  /\ Len(gen.urls) = 3
  /\ gen.fetched = <<Url1, Url2>>
  /\ Len(gen.yielded) = 1
  /\ gen.st = "threw"

\* C12: the paths yielded are exactly the paths whose write completed, in
\* that order; when a write fails the sequence throws the write error and the
\* path of that step is not yielded.
C12_YieldsOnlyWrittenPaths ==
  /\ gen.yielded = gen.written
  /\ Len(gen.written) < Len(gen.started) => gen.st \in {"writing", "threw"}
  /\ (gen.st = "threw" /\ Len(gen.written) < Len(gen.started))
     => (gen.reason = ErrWrite /\ Len(gen.yielded) = Len(gen.started) - 1)

\* the write of the second step failed after the first path was yielded
C12_Witness ==
  /\ gen.st = "threw"
  /\ gen.reason = ErrWrite
  /\ Len(gen.started) = 2
  /\ gen.yielded = <<gen.started[1]>>

\* C13: the sequence is lazy and ordered: the urls fetched so far are a
\* prefix of the urls iterated, never more of them than items were requested,
\* and a fetch or write is in progress only for the item last requested,
\* every earlier one having been yielded.
C13_LazyAndOrdered ==
  /\ Len(gen.fetched) <= gen.requested
  /\ Len(gen.fetched) <= Len(gen.urls)
  /\ gen.fetched = SubSeq(gen.urls, 1, Len(gen.fetched))
  /\ gen.st \in {"fetching", "writing"}
     => (Len(gen.fetched) = gen.requested /\ Len(gen.yielded) = gen.requested - 1)
  /\ gen.st = "yielded" => Len(gen.yielded) = Len(gen.fetched)

\* two of three urls were requested, fetched and yielded, the third not yet
C13_Witness ==
  /\ gen.st = "yielded"
  /\ gen.urls = <<Url1, Url2, Url3>>
  /\ gen.requested = 2
  /\ gen.fetched = <<Url1, Url2>>
  /\ Len(gen.yielded) = 2

\* C14, as the specification states it: in a run of one file that produces
\* one result, the events emitted are uploading, then processing, then
\* downloading.
C14_Stated ==
  (/\ nCalls = 1
   /\ call.pc = "resolved"
   /\ Len(downloadUrls) = 1
   /\ nGens = 1
   /\ gen.st = "done"
   /\ Len(gen.yielded) = 1)
  => [k \in 1..Len(events) |-> events[k].name] = <<"uploading", "processing", "downloading">>

\* C15, as the specification states it: a handler that throws aborts
\* neither process() nor a download step, and every event reaches every
\* registered handler.
C15_Stated ==
  /\ call.reason # ErrSubscriber
  /\ gen.reason # ErrSubscriber
  /\ \A k \in 1..Len(events) : events[k].notified = Len(subscribers)

\* C16: downloadUrls never holds more than three urls, and after a
\* successful process() it is the sequence of the non-empty values among
\* resultUrl, resultUrl2, resultUrl3 of the final descriptor, in that order.
C16_DownloadUrlsAreResultFields ==
  LET f == <<call.final.resultUrl, call.final.resultUrl2, call.final.resultUrl3>>
      kept == {i \in 1..3 : f[i] # Undefined /\ f[i] # ""}
      n == Len(downloadUrls)
  IN  /\ n <= 3
      /\ call.pc = "resolved"
         => /\ n = Cardinality(kept)
            /\ \E pos \in [1..n -> 1..3] :
                 /\ {pos[k] : k \in 1..n} = kept
                 /\ \A j \in 1..n, k \in 1..n : j < k => pos[j] < pos[k]
                 /\ \A k \in 1..n : downloadUrls[k] = f[pos[k]]

\* the final descriptor had an empty second field between two urls
C16_Witness ==
  /\ call.pc = "resolved"
  /\ call.final.resultUrl = Url1
  /\ call.final.resultUrl2 = ""
  /\ call.final.resultUrl3 = Url3
  /\ downloadUrls = <<Url1, Url3>>

\* C17, as the specification states it: when the fetch fails or the
\* response has a status outside 200..299, callService throws; what it throws
\* is the service error envelope when the body decodes to one, and otherwise
\* an error carrying the status, the status text and the url.
C17_Stated ==
  (svc.st = "settled" /\ (svc.out.net = "failed" \/ svc.out.status \notin 200..299))
  => /\ svc.kind = "threw"
     /\ svc.out.net = "response"
        => IF svc.out.body = "envelope" THEN svc.error.name = "ServiceError"
           ELSE svc.error = ServiceErr("Error", svc.out.status,
                                       StatusText(svc.out.status), svc.url)

\* C18, as the specification states it: for one task state, the record the
\* XML transport hands to its callback and the record callService returns
\* have the same fields with the same values.
C18_Stated ==
  (/\ svc.st = "settled"
   /\ svc.method = "getTaskStatus"
   /\ svc.kind = "returned"
   /\ svc.out.body = "task")
  => LET x == XmlRecord(svc.out.task)
         j == JsonRecord(svc.out.task)
     IN  /\ DOMAIN x = DOMAIN j
         /\ \A f \in DOMAIN x : x[f] = j[f]

\* C19, as the specification states it: during one waitForCompletion call at
\* most one item is outstanding among the armed timers and the status queries
\* that have not been answered yet.
C19_Stated ==
  call.timers + Cardinality({r \in requests : r.kind = "status" /\ r.chunks = 0}) <= 1

\* C20, as the specification states it: the callback of processImage and the
\* callback of waitForCompletion are each invoked at most once, and exactly
\* once when every request of the call has ended and no timer is left.
C20_Stated ==
  /\ call.subCb <= 1
  /\ call.userCb <= 1
  /\ (Quiet /\ call.pc # "idle" /\ call.reason # ErrRead)
     => (call.subCb = 1 /\ (call.accepted => call.userCb = 1))

\* C21, as the specification states it: under fair scheduling (timers fire,
\* requests get their response or their error) a process() call that is
\* under way eventually settles.
C21_Stated ==
  (call.pc \in {"submitting", "polling"}) ~> (call.pc \in {"resolved", "rejected"})

\* C22, as the specification states it: every url a download sequence
\* fetches is a result url of the task of the most recent process() call; in
\* particular, after a process() call that rejected, nothing of an earlier
\* task is fetched.
C22_Stated ==
  Len(gen.fetched) > 0 => (urlsOwner = "current" /\ call.pc = "resolved")

\* C23, as the specification states it: when the second of two process()
\* calls started while the first was under way and both have resolved, the
\* stored downloadUrls, fileName (first revision) and settings (later
\* revision) are those of one and the same call.
C23_Stated ==
  (/\ overlap[2].after
   /\ overlap[1].cr.pc = "resolved"
   /\ overlap[2].cr.pc = "resolved")
  => \E k \in 1..2 :
       /\ downloadUrls = ResultUrls(overlap[k].cr.final)
       /\ rev = 1 => fileName = Basename(overlap[k].cr.filePath)
       /\ rev = 2 => settings = SettingsOrDefault(overlap[k].settingsArg)

\* C24, as the specification states it: the target path of every step that
\* has an extension is the target directory (the one the caller supplied, or
\* the system temporary directory) joined with the uploaded file's name
\* without its last extension, a dot and the extension of the step; a name
\* without a dot is kept whole.
C24_Stated ==
  LET parts == Split(Basename(call.filePath), ".")
      stem == IF Len(parts) = 1 THEN parts[1] ELSE Join(DropLast(parts), ".")
      exts == Extensions(settings.exportFormat, rev)
      dir == IF Len(gen.dirArg) = 0 THEN TmpDir ELSE gen.dirArg
  IN  (call.pc = "resolved" /\ urlsOwner = "current" /\ settings.defined)
      => \A j \in 1..Len(gen.started) :
           j <= Len(exts)
           => gen.started[j] = PathJoin(dir, stem \o <<".">> \o exts[j])

\* C25, as the specification states it: when the formats requested are
\* distinct, the steps of one download sequence that have a format write to
\* pairwise different target paths.
C25_Stated ==
  (\A a, b \in 1..Len(gen.formats) : a # b => gen.formats[a] # gen.formats[b])
  => \A i, j \in 1..Len(gen.started) :
       (i < j /\ j <= Len(gen.formats)) => gen.started[i] # gen.started[j]

\* C26, as the specification states it: in either revision, when the first
\* step of a sequence is under way the list of extensions has one entry per
\* element of exportFormat, in order: the first three characters of an
\* element that starts with "pdf" or "txt", the element itself otherwise.
C26_Stated ==
  LET short(f) == IF SliceTo(f, 3) \in {Str_pdf, Str_txt} THEN SliceTo(f, 3) ELSE f
  IN  (gen.st = "fetching" /\ gen.i = 1)
      => gen.extensions = [k \in 1..Len(gen.formats) |-> short(gen.formats[k])]

\* C27: the downloading event is emitted once per step whose fetch returned
\* an ok response, with the file name of that step's target path; it is not
\* emitted before the response, it is emitted before the write completes and
\* before the path is yielded, so the events of a sequence number at least
\* the paths yielded and at most one more.
C27_DownloadingOncePerOkStep ==
  LET ev == DownloadingEvents
      okSteps == IF \/ gen.st = "fetching"
                    \/ (gen.st = "threw" /\ gen.reason \in {ErrTransport, ErrDownload})
                 THEN Len(gen.fetched) - 1
                 ELSE Len(gen.fetched)
  IN  /\ Len(ev) = okSteps
      /\ \A k \in 1..Len(ev) :
           k <= Len(gen.started) => PathJoin(gen.targetDir, ev[k].arg) = gen.started[k]
      /\ gen.st = "fetching" => Len(ev) = Len(gen.yielded)
      /\ gen.st = "writing" => Len(ev) = Len(gen.written) + 1
      /\ Len(gen.yielded) <= Len(ev)
      /\ Len(ev) <= Len(gen.yielded) + 1

\* the second step has emitted its event and is writing, one path yielded
C27_Witness ==
  /\ gen.st = "writing"
  /\ gen.lastFetch = "ok"
  /\ Len(gen.yielded) = 1
  /\ Len(DownloadingEvents) = 2
  /\ Len(DownloadingEvents[2].arg) > 0

\* C28, as the specification states it: the null-id guard rejects only ids
\* made of zero filler characters: a submission accepted with an id that has
\* at least one other character is polled (a timer is armed for it) and is
\* not answered with the null-id error.
C28_Stated ==
  (call.accepted /\ ~AllZero(call.taskId))
  => /\ call.timersArmed >= 1
     /\ call.reason # ErrNullId

\* C29: the command line program has one file under way at a time: it calls
\* process() for a further file only when process() of the previous file
\* resolved and its download sequence was iterated to its end; once
\* process() has rejected or a download step has thrown it calls process()
\* for no further file and, when it exits, exits with code 1; it exits with
\* code 0 only when every file was processed and downloaded.
C29_OneFileAtATime ==
  [][ /\ nCalls' > nCalls
         => \/ nCalls = 0
            \/ /\ call.pc = "resolved"
               /\ gen.st = "done"
               /\ Len(gen.yielded) = Len(downloadUrls)
      /\ (call.pc = "rejected" \/ gen.st = "threw")
         => /\ nCalls' = nCalls
            /\ cli'.pc \in {cli.pc, "exited"}
            /\ cli'.pc = "exited" => cli'.code = 1
      /\ (cli'.pc = "exited" /\ cli'.code = 0)
         => /\ nCalls' = Len(cli'.files)
            /\ call'.pc = "resolved"
            /\ gen'.st = "done" ]_vars

\* the program was given two files; the second step of the download of the
\* first file threw, and the program has exited with code 1 without calling
\* process() for the second file
C29_Witness ==
  /\ Len(cli.files) = 2
  /\ cli.pc = "exited"
  /\ cli.code = 1
  /\ nCalls = 1
  /\ gen.st = "threw"
  /\ Len(gen.yielded) = 1

TypeOK ==
  /\ rev \in {1, 2}
  /\ client \in {"none", "ready", "threw"}
  /\ nCalls \in 0..MaxCalls
====
